---------------------------- MODULE Spec2Model ----------------------------
(***************************************************************************)
(* Diff Digest: the client page (src/src/app/page.tsx) with its Dexie      *)
(* table (src/src/lib/db.ts).  The model covers the generation request     *)
(* fetchAIGeneratedDiff (response, read loop, incremental extraction of    *)
(* the two note fields, fire-and-forget partial writes, awaited final      *)
(* write), the listing fetch fetchDiffs, the click handlers and the        *)
(* IndexedDB table behind db.diffs.                                        *)
(*                                                                         *)
(* Text is a sequence of one-character strings, "" is the empty sequence.  *)
(* The body of a response is a sequence of bytes: an ASCII character is    *)
(* its own byte, the one non-ASCII character of the model takes two.       *)
(*                                                                         *)
(* A state update takes effect in the step that calls it, and the updater  *)
(* of setGeneratedSummaries, which issues the partial write, runs in the   *)
(* step of its chunk.  The calls on db.diffs settle in the order they were *)
(* issued; the step that settles an awaited call also runs what follows    *)
(* the await.                                                              *)
(***************************************************************************)
EXTENDS Naturals, Sequences, FiniteSets, TLC

(***************************************************************************)
(* Bounds of the model.                                                    *)
(***************************************************************************)
MaxRequests == 2
MaxQueue == 2
MaxTime == 1
MaxClicks == 4
MaxChunks == 2

Ids == {"a", "b"}
IdOrder == <<"a", "b">>

Range(s) == {s[i] : i \in 1..Len(s)}
Min(S) == CHOOSE x \in S : \A y \in S : x <= y

(***************************************************************************)
(* Characters and bytes.                                                   *)
(***************************************************************************)
Q == "\""
EAcute == "U+00E9"
Replacement == "U+FFFD"
LeadByte == "0xC3"
ContByte == "0xA9"

\* TextEncoder.encode: UTF-8, one byte per ASCII character, two for U+00E9.
RECURSIVE Encode(_)
Encode(text) ==
  IF text = <<>> THEN <<>>
  ELSE IF Head(text) = EAcute
       THEN <<LeadByte, ContByte>> \o Encode(Tail(text))
       ELSE <<Head(text)>> \o Encode(Tail(text))

\* new TextDecoder().decode(value), called without {stream: true}: every call
\* decodes its chunk on its own, and a sequence cut by the end of the chunk
\* (or a continuation byte with no lead byte) decodes to U+FFFD.
decode(value) ==
  LET paired(i) == i > 1 /\ value[i] = ContByte /\ value[i - 1] = LeadByte
      starts == SelectSeq([i \in 1..Len(value) |-> i], LAMBDA i : ~paired(i))
      char(i) == IF value[i] = LeadByte
                 THEN IF i < Len(value) /\ value[i + 1] = ContByte
                      THEN EAcute ELSE Replacement
                 ELSE IF value[i] = ContByte THEN Replacement
                      ELSE value[i]
  IN [k \in 1..Len(starts) |-> char(starts[k])]

(***************************************************************************)
(* The two patterns of the read loop.                                      *)
(***************************************************************************)
DeveloperKey == <<"d","e","v","e","l","o","p","e","r","_","n","o","t","e","s">>
MarketingKey == <<"m","a","r","k","e","t","i","n","g","_","n","o","t","e","s">>

\* The literal part of /"<key>":"([^\"]*)/ .
Literal(key) == <<Q>> \o key \o <<Q, ":", Q>>

\* Variant: a double quote that follows a backslash does not end the value.
RegexMatchEscapes(text, key) ==
  LET lit == Literal(key)
      n == Len(lit)
      at == {i \in 1..Len(text) : i + n - 1 <= Len(text)
                                  /\ SubSeq(text, i, i + n - 1) = lit}
  IN IF at = {} THEN [found |-> FALSE, group1 |-> <<>>]
     ELSE LET from == Min(at) + n
              quotes == {j \in from..Len(text) :
                           text[j] = Q /\ (j = from \/ text[j - 1] # "\\")}
              to == IF quotes = {} THEN Len(text) ELSE Min(quotes) - 1
          IN [found |-> TRUE, group1 |-> SubSeq(text, from, to)]

\* Variant: the pattern ends with a closing double quote.
RegexMatchClosed(text, key) ==
  LET lit == Literal(key)
      n == Len(lit)
      at == {i \in 1..Len(text) :
               /\ i + n - 1 <= Len(text)
               /\ SubSeq(text, i, i + n - 1) = lit
               /\ \E j \in i + n..Len(text) : text[j] = Q}
  IN IF at = {} THEN [found |-> FALSE, group1 |-> <<>>]
     ELSE LET from == Min(at) + n
              to == Min({j \in from..Len(text) : text[j] = Q}) - 1
          IN [found |-> TRUE, group1 |-> SubSeq(text, from, to)]

\* String.prototype.match with a non-global regular expression: the leftmost
\* position where the literal matches, group 1 the longest run of characters
\* other than the double quote that follows it.  found = FALSE is null.
RegexMatch(text, key) ==
  LET lit == Literal(key)
      n == Len(lit)
      at == {i \in 1..Len(text) : i + n - 1 <= Len(text)
                                  /\ SubSeq(text, i, i + n - 1) = lit}
  IN IF at = {} THEN [found |-> FALSE, group1 |-> <<>>]
     ELSE LET from == Min(at) + n
              quotes == {j \in from..Len(text) : text[j] = Q}
              to == IF quotes = {} THEN Len(text) ELSE Min(quotes) - 1
          IN [found |-> TRUE, group1 |-> SubSeq(text, from, to)]

devMatch(accumulated) == RegexMatch(accumulated, DeveloperKey)
mktMatch(accumulated) == RegexMatch(accumulated, MarketingKey)

\* finalDeveloper = devMatch ? devMatch[1] : finalDeveloper
NextBest(match, previous) == IF match.found THEN match.group1 ELSE previous

\* JavaScript a || b on strings: the empty string is falsy.
OrElse(a, b) == IF a # <<>> THEN a ELSE b

(***************************************************************************)
(* Payloads the backend may answer with.                                   *)
(***************************************************************************)
Payload(D, M) ==
  <<"{">> \o Literal(DeveloperKey) \o D \o <<Q, ",">>
          \o Literal(MarketingKey) \o M \o <<Q, "}">>


\* One response body: the bytes, and the places where the transport may cut
\* them into the chunks reader.read() returns (the end of the body is always
\* one of them).
Body(bytes, cuts) == [bytes |-> bytes, cuts |-> cuts \cup {Len(bytes)}]

(***************************************************************************)
(* The Dexie table db.diffs: DiffEntity records keyed by id.               *)
(***************************************************************************)
EmptyMap == [x \in {} |-> {}]

Put(m, k, v) == [x \in DOMAIN m \cup {k} |-> IF x = k THEN v ELSE m[x]]

Get(m, k, default) == IF k \in DOMAIN m THEN m[k] ELSE default

\* The DiffItem the listing returns for an id; in memory a diff is held by
\* its id, its other fields are these.
DiffItem(id) ==
  [id |-> id, description |-> <<"description", id>>,
   diff |-> <<"diff", id>>, url |-> <<"url", id>>]

ItemFields == {"id", "description", "diff", "url"}
NoteFields == {"summaryDeveloper", "summaryMarketing", "summaryUpdatedAt"}

\* Object spread {...a, ...b}.
Spread(a, b) ==
  [f \in DOMAIN a \cup DOMAIN b |-> IF f \in DOMAIN b THEN b[f] ELSE a[f]]

\* data.diffs.map((d) => ({...d, fetchedAt: Date.now()}))
entities(items, t) ==
  [i \in 1..Len(items) |-> Spread(DiffItem(items[i]), [fetchedAt |-> t])]

\* Variant: the changes are applied to every record of the table.
TableUpdateAll(table, key, changes) ==
  [x \in DOMAIN table |-> Spread(table[x], changes)]

\* Variant: the changes are put under the key whether or not it is stored.
TableUpsert(table, key, changes) ==
  [x \in DOMAIN table \cup {key} |->
     IF x # key THEN table[x]
     ELSE IF key \in DOMAIN table THEN Spread(table[key], changes)
          ELSE Spread([id |-> key], changes)]

\* Table.update(key, changes): merges the changes into the record stored
\* under key; resolves without creating anything when there is none.
TableUpdate(table, key, changes) ==
  IF key \in DOMAIN table
  THEN [table EXCEPT ![key] = Spread(table[key], changes)]
  ELSE table

\* Variant: a record is merged into the one stored under its id.
TableBulkMerge(table, records) ==
  LET ids == {records[i].id : i \in 1..Len(records)}
      at(id) == CHOOSE i \in 1..Len(records) : records[i].id = id
  IN [x \in DOMAIN table \cup ids |->
        IF x \notin ids THEN table[x]
        ELSE IF x \in DOMAIN table THEN Spread(table[x], records[at(x)])
             ELSE records[at(x)]]

\* Table.bulkPut(records): every record is stored under its id, replacing
\* whatever was stored there.
TableBulkPut(table, records) ==
  LET ids == {records[i].id : i \in 1..Len(records)}
      last(id) == CHOOSE i \in 1..Len(records) :
                    /\ records[i].id = id
                    /\ \A j \in 1..Len(records) : records[j].id = id => j <= i
  IN [x \in DOMAIN table \cup ids |->
        IF x \in ids THEN records[last(x)] ELSE table[x]]

\* Variant: one call deletes the first record only.
TableClearOne(table) ==
  IF DOMAIN table = {} THEN table
  ELSE LET first == CHOOSE x \in DOMAIN table : TRUE
       IN [x \in DOMAIN table \ {first} |-> table[x]]

\* Table.clear()
TableClear(table) == EmptyMap

\* Table.toArray(): the records in primary-key order.
TableToArray(table) ==
  LET keys == SelectSeq(IdOrder, LAMBDA k : k \in DOMAIN table)
  IN [i \in 1..Len(keys) |-> table[keys[i]]]

(***************************************************************************)
(* State.                                                                  *)
(***************************************************************************)
VARIABLES
  cache,               \* the rows of db.diffs
  dbQueue,             \* Dexie calls issued and not yet settled, oldest first
  now,                 \* Date.now()
  diffs,               \* useState: ids of the listed diffs, in order
  generatedSummaries,  \* useState: id -> [developer, marketing]
  loadingSummaries,    \* useState: id -> BOOLEAN
  summaryErrors,       \* useState: id -> message
  openItems,           \* useState: ids of the open accordion items
  isLoading,           \* useState
  nextPage,            \* useState: 0 is null
  listing,             \* the fetchDiffs call in progress, if any
  requests,            \* the fetchAIGeneratedDiff calls, by slot
  console,             \* console.error lines of bulkPut and clear, in order
  upserted,            \* history: ids put since the table was last cleared
  clicks,              \* history: how many times the user has acted
  route                \* the response stream of POST /api/ai-generated-diff

vars == <<cache, dbQueue, now, diffs, generatedSummaries, loadingSummaries,
          summaryErrors, openItems, isLoading, nextPage, listing, requests,
          console, upserted, clicks, route>>

uiVars == <<diffs, openItems, isLoading, nextPage, listing>>
summaryVars == <<generatedSummaries, loadingSummaries, summaryErrors>>
dbVars == <<cache, dbQueue, console, upserted>>

EmptyNotes == [developer |-> <<>>, marketing |-> <<>>]

Idle == [stage |-> "idle", page |-> 0]

\* A user action, of which a run of the model holds at most MaxClicks.
Click == clicks < MaxClicks /\ clicks' = clicks + 1


(***************************************************************************)
(* fetchAIGeneratedDiff.  A call is a record of `requests`; its pc is the  *)
(* await it is suspended at: "fetch" (fetchWithTimeout), "read"            *)
(* (reader.read), "store" (the final db.diffs.update), or "done".          *)
(***************************************************************************)
Slots == 1..MaxRequests

NewRequest(id) ==
  [id |-> id, pc |-> "fetch", bytes |-> <<>>, cuts |-> {}, pos |-> 0,
   accumulated |-> <<>>, finalDeveloper |-> <<>>, finalMarketing |-> <<>>,
   outcome |-> "", log |-> {}]

\* A slot no call has used yet.
Free == [NewRequest("") EXCEPT !.pc = "free"]

\* The slots a new call may take: unused, or left by a call that has returned.
Vacant == {r \in Slots : requests[r].pc \in {"free", "done"}}

Running == Slots \ Vacant

RECURSIVE Lowest(_, _)
Lowest(S, n) ==
  IF n = 0 THEN <<>> ELSE <<Min(S)>> \o Lowest(S \ {Min(S)}, n - 1)

\* The synchronous head of the call, for each id of `started` (distinct ids):
\* the three setState calls, then the request is sent.
fetchAIGeneratedDiff(started) ==
  LET ids == Range(started) IN
  /\ Len(started) <= Cardinality(Vacant)
  /\ LET slot == Lowest(Vacant, Len(started)) IN
     requests' = [r \in Slots |->
                    IF \E i \in 1..Len(started) : slot[i] = r
                    THEN NewRequest(started[CHOOSE i \in 1..Len(started) :
                                              slot[i] = r])
                    ELSE requests[r]]
  /\ generatedSummaries' =
       [x \in DOMAIN generatedSummaries \cup ids |->
          IF x \in ids THEN EmptyNotes ELSE generatedSummaries[x]]
  /\ loadingSummaries' =
       [x \in DOMAIN loadingSummaries \cup ids |->
          IF x \in ids THEN TRUE ELSE loadingSummaries[x]]
  /\ summaryErrors' =
       [x \in DOMAIN summaryErrors \cup ids |->
          IF x \in ids THEN "" ELSE summaryErrors[x]]

\* Variant: the message of the error is shown as it is.
fetchFailureMessageRaw(name, message) ==
  IF name = "AbortError" THEN "Request timed out. Please try again."
  ELSE message

\* The message of the catch around fetchWithTimeout.
fetchFailureMessage(name, message) ==
  IF name = "AbortError" THEN "Request timed out. Please try again."
  ELSE IF message # "" THEN message
       ELSE "Failed to fetch AI generated summary."

\* The message of a response that is not ok or has no body; errJson is the
\* error text of the JSON body, "" when there is none or it does not parse.
notOkMessage(errJson) ==
  IF errJson # "" THEN errJson
  ELSE "Failed to fetch AI generated summary (status 500)"

\* The message of the catch around the read loop.
streamFailureMessage(message) ==
  IF message # "" THEN message ELSE "Error while reading AI stream."

\* accumulated += chunk
accumulate(accumulated, chunk) == accumulated \o chunk

\* Variant: the pattern is matched against the chunk alone.
bestDeveloperOfChunk(accumulated, chunk, finalDeveloper) ==
  RegexMatch(chunk, DeveloperKey).group1

\* One turn of the loop for each field: the pattern is matched against the
\* whole buffer, and a match replaces the best value.
bestDeveloper(accumulated, chunk, finalDeveloper) ==
  NextBest(devMatch(accumulate(accumulated, chunk)), finalDeveloper)

bestMarketing(accumulated, chunk, finalMarketing) ==
  NextBest(mktMatch(accumulate(accumulated, chunk)), finalMarketing)

\* updated[diff.id] of the setGeneratedSummaries updater.
surfaced(prev, id, finalDeveloper, finalMarketing) ==
  [developer |-> OrElse(finalDeveloper, Get(prev, id, EmptyNotes).developer),
   marketing |-> OrElse(finalMarketing, Get(prev, id, EmptyNotes).marketing)]

\* Variant: the partial write also stamps fetchedAt.
partialChangesStamped(updated, t) ==
  [summaryDeveloper |-> updated.developer,
   summaryMarketing |-> updated.marketing,
   summaryUpdatedAt |-> t, fetchedAt |-> t]

\* The changes of the partial write, issued from the updater.
partialChanges(updated, t) ==
  [summaryDeveloper |-> updated.developer,
   summaryMarketing |-> updated.marketing,
   summaryUpdatedAt |-> t]

\* The changes of the final write.
finalChanges(finalDeveloper, finalMarketing, t) ==
  [summaryDeveloper |-> finalDeveloper,
   summaryMarketing |-> finalMarketing,
   summaryUpdatedAt |-> t]

\* db.diffs.update(diff.id, changes) as issued by request r.
updateCall(r, id, changes, final) ==
  [kind |-> "update", req |-> r, final |-> final, key |-> id,
   changes |-> changes]

\* Variant: the final write is made only when a note was extracted.
finalWritesIfAny(r, id, finalDeveloper, finalMarketing, t) ==
  IF finalDeveloper # <<>> \/ finalMarketing # <<>>
  THEN <<[kind |-> "update", req |-> r, final |-> TRUE, key |-> id,
          changes |-> [summaryDeveloper |-> finalDeveloper,
                       summaryMarketing |-> finalMarketing,
                       summaryUpdatedAt |-> t]]>>
  ELSE <<>>

\* The Dexie calls made once the loop is left: the final write, always.
finalWrites(r, id, finalDeveloper, finalMarketing, t) ==
  <<updateCall(r, id, finalChanges(finalDeveloper, finalMarketing, t), TRUE)>>

\* Variant: a rejected final write is not caught, the flag stays set.
loadingAfterStoreUncaught(loading, id, ok) ==
  IF ok THEN Put(loading, id, FALSE) ELSE loading

\* loadingSummaries once the final write has settled: resolved or rejected
\* (caught and logged), the flag of the id is cleared.
loadingAfterStore(loading, id, ok) == Put(loading, id, FALSE)

\* Variant: the catch does not return, the function goes on to the final
\* write.
fetchRejectsStores(r, name, message) ==
  LET q == requests[r] IN
  /\ q.pc = "fetch"
  /\ Len(dbQueue) < MaxQueue
  /\ requests' = [requests EXCEPT ![r].pc = "store",
                    ![r].outcome = IF name = "AbortError" THEN "timeout"
                                   ELSE "rejected"]
  /\ summaryErrors' = Put(summaryErrors, q.id, "Failed to fetch")
  /\ dbQueue' = Append(dbQueue,
                  [kind |-> "update", req |-> r, final |-> TRUE, key |-> q.id,
                   changes |-> [summaryDeveloper |-> <<>>,
                                summaryMarketing |-> <<>>,
                                summaryUpdatedAt |-> now]])
  /\ UNCHANGED <<clicks, generatedSummaries, loadingSummaries, cache, console,
                 upserted, now, route, uiVars>>

\* fetchWithTimeout rejects: the network fails, or the 60 s timer aborts the
\* fetch (the timer is cleared as soon as fetch resolves).
fetchRejects(r, name, message) ==
  LET id == requests[r].id IN
  /\ requests[r].pc = "fetch"
  /\ requests' = [requests EXCEPT ![r].pc = "done",
                    ![r].outcome = IF name = "AbortError" THEN "timeout"
                                   ELSE "rejected"]
  /\ summaryErrors' = Put(summaryErrors, id, fetchFailureMessage(name, message))
  /\ loadingSummaries' = Put(loadingSummaries, id, FALSE)
  /\ UNCHANGED <<generatedSummaries, dbVars, now, route, uiVars, clicks>>

\* The response is not ok, or has no body.
responseNotOk(r, errJson) ==
  LET id == requests[r].id IN
  /\ requests[r].pc = "fetch"
  /\ requests' = [requests EXCEPT ![r].pc = "done", ![r].outcome = "http"]
  /\ summaryErrors' = Put(summaryErrors, id, notOkMessage(errJson))
  /\ loadingSummaries' = Put(loadingSummaries, id, FALSE)
  /\ UNCHANGED <<generatedSummaries, dbVars, now, route, uiVars, clicks>>

\* The response is ok: the reader is taken and the loop awaits its first read.
responseOk(r, body) ==
  /\ requests[r].pc = "fetch"
  /\ requests' = [requests EXCEPT ![r].pc = "read", ![r].bytes = body.bytes,
                    ![r].cuts = body.cuts]
  /\ UNCHANGED <<clicks, summaryVars, dbVars, now, route, uiVars>>

\* reader.read() returns the bytes up to cut c: one turn of the loop.
readChunk(r, c) ==
  LET q == requests[r]
      chunk == decode(SubSeq(q.bytes, q.pos + 1, c))
      acc == accumulate(q.accumulated, chunk)
      fd == bestDeveloper(q.accumulated, chunk, q.finalDeveloper)
      fm == bestMarketing(q.accumulated, chunk, q.finalMarketing)
      updated == surfaced(generatedSummaries, q.id, fd, fm)
  IN
  /\ q.pc = "read"
  /\ c \in q.cuts /\ c > q.pos
  /\ Len(dbQueue) < MaxQueue
  /\ requests' = [requests EXCEPT ![r].pos = c, ![r].accumulated = acc,
                    ![r].finalDeveloper = fd, ![r].finalMarketing = fm]
  /\ generatedSummaries' = Put(generatedSummaries, q.id, updated)
  /\ dbQueue' = Append(dbQueue,
                  updateCall(r, q.id, partialChanges(updated, now), FALSE))
  /\ UNCHANGED <<clicks, loadingSummaries, summaryErrors, cache, console,
                 upserted, now, route, uiVars>>

\* reader.read() returns done: the loop is left and the final write issued.
readDone(r) ==
  LET q == requests[r] IN
  /\ q.pc = "read"
  /\ q.pos = Len(q.bytes)
  /\ Len(dbQueue) < MaxQueue
  /\ requests' = [requests EXCEPT ![r].pc = "store", ![r].outcome = "ended"]
  /\ dbQueue' = dbQueue \o
       finalWrites(r, q.id, q.finalDeveloper, q.finalMarketing, now)
  /\ UNCHANGED <<clicks, summaryVars, cache, console, upserted, now, route, uiVars>>

\* Variant: a failed read sends the request again.
readThrowsRetry(r, message) ==
  /\ requests[r].pc = "read"
  /\ requests' = [requests EXCEPT ![r] = NewRequest(requests[r].id)]
  /\ UNCHANGED <<clicks, summaryVars, dbVars, now, route, uiVars>>

\* reader.read() rejects: the catch records the message, and the function goes
\* on to the final write.
readThrows(r, message) ==
  LET q == requests[r] IN
  /\ q.pc = "read"
  /\ Len(dbQueue) < MaxQueue
  /\ requests' = [requests EXCEPT ![r].pc = "store", ![r].outcome = "stream"]
  /\ summaryErrors' = Put(summaryErrors, q.id, streamFailureMessage(message))
  /\ dbQueue' = dbQueue \o
       finalWrites(r, q.id, q.finalDeveloper, q.finalMarketing, now)
  /\ UNCHANGED <<clicks, generatedSummaries, loadingSummaries, cache, console,
                 upserted, now, route,
                 uiVars>>

\* A db.diffs.update settles, oldest call first.  A partial write that rejects
\* is logged by its .catch; the final write is awaited, and whether it
\* resolves or rejects (logged) the call ends by clearing the loading flag.
updateSettles(ok) ==
  /\ dbQueue # <<>>
  /\ Head(dbQueue).kind = "update"
  /\ LET call == Head(dbQueue)
         r == call.req
         line == IF call.final THEN "Failed to store summary"
                 ELSE "Dexie partial save failed"
     IN
     /\ dbQueue' = Tail(dbQueue)
     /\ cache' = IF ok THEN TableUpdate(cache, call.key, call.changes) ELSE cache
     /\ requests' =
          [requests EXCEPT
             ![r].log = IF ok THEN @ ELSE @ \cup {line},
             ![r].pc = IF call.final THEN "done" ELSE @]
     /\ loadingSummaries' =
          IF call.final THEN loadingAfterStore(loadingSummaries, call.key, ok)
          ELSE loadingSummaries
  /\ UNCHANGED <<clicks, generatedSummaries, summaryErrors, console, upserted,
                 now, route, uiVars>>


(***************************************************************************)
(* fetchDiffs and the listing it reads (/api/sample-diffs).                *)
(***************************************************************************)
\* The listing's pages: data.diffs (by id) and data.nextPage (0 is null).
ListingPage(page) ==
  IF page = 1 THEN [diffs |-> <<"a">>, nextPage |-> 2]
  ELSE [diffs |-> <<"b">>, nextPage |-> 0]

\* fetchDiffs(page) up to its first await.
fetchDiffs(page) ==
  /\ listing = Idle
  /\ isLoading' = TRUE
  /\ listing' = [stage |-> "fetch", page |-> page]

handleFetchClick ==
  /\ Click
  /\ ~isLoading
  /\ diffs' = <<>>
  /\ fetchDiffs(1)
  /\ UNCHANGED <<openItems, nextPage, summaryVars, dbVars, now, route, requests>>

handleLoadMoreClick ==
  /\ Click
  /\ ~isLoading
  /\ nextPage # 0
  /\ fetchDiffs(nextPage)
  /\ UNCHANGED <<diffs, openItems, nextPage, summaryVars, dbVars, now, route,
                 requests>>

\* The listing request fails (rejected, timed out, not ok, malformed JSON):
\* the outer catch sets the page error, finally clears isLoading.
fetchDiffsFails ==
  /\ listing.stage = "fetch"
  /\ isLoading' = FALSE
  /\ listing' = Idle
  /\ UNCHANGED <<clicks, diffs, openItems, nextPage, summaryVars, dbVars, now, route,
                 requests>>

\* The listing answers: setDiffs, then the page is persisted with bulkPut.
fetchDiffsResponds ==
  LET data == ListingPage(listing.page) IN
  /\ listing.stage = "fetch"
  /\ Len(dbQueue) < MaxQueue
  /\ diffs' = IF listing.page = 1 THEN data.diffs ELSE diffs \o data.diffs
  /\ dbQueue' = Append(dbQueue,
                  [kind |-> "bulkPut", records |-> entities(data.diffs, now)])
  /\ listing' = [listing EXCEPT !.stage = "persist"]
  /\ UNCHANGED <<clicks, openItems, isLoading, nextPage, summaryVars, cache,
                 console, upserted,
                 now, route, requests>>

\* db.diffs.bulkPut settles (a rejection is logged); fetchDiffs then sets the
\* page numbers and clears isLoading.
bulkPutSettles(ok) ==
  /\ dbQueue # <<>>
  /\ Head(dbQueue).kind = "bulkPut"
  /\ LET records == Head(dbQueue).records IN
     /\ dbQueue' = Tail(dbQueue)
     /\ cache' = IF ok THEN TableBulkPut(cache, records) ELSE cache
     /\ upserted' = IF ok THEN upserted \cup Range([i \in 1..Len(records) |->
                                                      records[i].id])
                    ELSE upserted
  /\ console' = IF ok THEN console ELSE Append(console, "Failed to persist diffs")
  /\ nextPage' = ListingPage(listing.page).nextPage
  /\ isLoading' = FALSE
  /\ listing' = Idle
  /\ UNCHANGED <<clicks, diffs, openItems, summaryVars, now, route, requests>>

(***************************************************************************)
(* The handlers of the accordion and of the buttons.                       *)
(***************************************************************************)
Truthy(text) == text # <<>>

allGenerated ==
  /\ Len(diffs) > 0
  /\ \A d \in Range(diffs) :
       /\ Truthy(Get(generatedSummaries, d, EmptyNotes).developer)
       /\ Truthy(Get(generatedSummaries, d, EmptyNotes).marketing)
       /\ ~Get(loadingSummaries, d, FALSE)

\* handleAccordionChange(values): a request for each newly opened item that
\* is not loading, is listed and has neither note.
handleAccordionChange(values) ==
  LET newlyOpened == values \ openItems
      wanted(id) == /\ id \in newlyOpened
                    /\ ~Get(loadingSummaries, id, FALSE)
                    /\ ~Truthy(Get(generatedSummaries, id, EmptyNotes).developer)
                    /\ ~Truthy(Get(generatedSummaries, id, EmptyNotes).marketing)
  IN
  /\ fetchAIGeneratedDiff(SelectSeq(diffs, wanted))
  /\ openItems' = values

\* The user opens or closes one item of the accordion.
toggleItem(id) ==
  /\ Click
  /\ id \in Range(diffs)
  /\ handleAccordionChange(IF id \in openItems THEN openItems \ {id}
                           ELSE openItems \cup {id})
  /\ UNCHANGED <<diffs, isLoading, nextPage, listing, dbVars, now, route>>

handleGenerateAllClick ==
  LET allIds == Range(diffs)
      idle(id) == ~Get(loadingSummaries, id, FALSE)
  IN
  /\ Click
  /\ Len(diffs) > 0
  /\ ~isLoading
  /\ IF allGenerated
     THEN /\ openItems' = allIds
          /\ fetchAIGeneratedDiff(SelectSeq(diffs, idle))
     ELSE handleAccordionChange(allIds)
  /\ UNCHANGED <<diffs, isLoading, nextPage, listing, dbVars, now, route>>

\* The Regenerate button of an open item, disabled while the item loads.
regenerate(id) ==
  /\ Click
  /\ id \in Range(diffs)
  /\ id \in openItems
  /\ ~Get(loadingSummaries, id, FALSE)
  /\ fetchAIGeneratedDiff(<<id>>)
  /\ UNCHANGED <<uiVars, dbVars, now, route>>

\* handleClearStorage, confirmed, up to its await.
handleClearStorage ==
  /\ Click
  /\ Len(dbQueue) < MaxQueue
  /\ dbQueue' = Append(dbQueue, [kind |-> "clear"])
  /\ UNCHANGED <<cache, console, upserted, now, route, uiVars, summaryVars, requests>>

\* db.diffs.clear() settles: resolved, the in-memory state is reset;
\* rejected, the failure is logged and nothing else happens.
clearSettles(ok) ==
  /\ dbQueue # <<>>
  /\ Head(dbQueue).kind = "clear"
  /\ dbQueue' = Tail(dbQueue)
  /\ IF ok
     THEN /\ cache' = TableClear(cache)
          /\ upserted' = {}
          /\ diffs' = <<>>
          /\ generatedSummaries' = EmptyMap
          /\ loadingSummaries' = EmptyMap
          /\ summaryErrors' = EmptyMap
          /\ openItems' = {}
          /\ nextPage' = 0
     ELSE UNCHANGED <<cache, upserted, diffs, summaryVars, openItems, nextPage>>
  /\ console' = IF ok THEN console ELSE Append(console, "Failed to clear storage")
  /\ UNCHANGED <<clicks, isLoading, listing, now, route, requests>>

\* Time passes.
Tick ==
  /\ now < MaxTime
  /\ now' = now + 1
  /\ UNCHANGED <<clicks, dbVars, uiVars, summaryVars, requests, route>>

(***************************************************************************)
(* The response stream of POST /api/ai-generated-diff.  start(controller)  *)
(* iterates the upstream completion and drives the controller; whoever     *)
(* holds the Response reads the stream or cancels it.  The controller's    *)
(* methods behave as the Streams standard says: enqueue and close throw a  *)
(* TypeError unless the stream is readable and close was not requested,    *)
(* error does nothing unless the stream is readable.                       *)
(***************************************************************************)
pageVars == <<cache, dbQueue, now, diffs, generatedSummaries, loadingSummaries,
              summaryErrors, openItems, isLoading, nextPage, listing, requests,
              console, upserted, clicks>>

\* A chunk of the completion: delta.tool_calls with the arguments of each.
ToolChunk(arguments) == [tool_calls |-> <<arguments>>]
OtherChunk == [tool_calls |-> <<>>]

UpstreamChunks ==
  {ToolChunk(<<"{">>), ToolChunk(<<EAcute>>), ToolChunk(<<>>), OtherChunk}

RECURSIVE Completions(_)
Completions(n) ==
  IF n = 0 THEN {<<>>}
  ELSE LET shorter == Completions(n - 1) IN
       shorter \cup {Append(c, chunk) : c \in shorter, chunk \in UpstreamChunks}

\* No POST has been made.
NoRoute ==
  [pc |-> "none", completionStream |-> <<>>, pieces |-> <<>>, queue |-> <<>>,
   received |-> <<>>, state |-> "readable", closeRequested |-> FALSE,
   threw |-> FALSE, cancelled |-> FALSE]

\* new ReadableStream({ start }) over a completion.
NewStream(completion) ==
  [NoRoute EXCEPT !.pc = "iterate", !.completionStream = completion]

CanCloseOrEnqueue(rt) == rt.state = "readable" /\ ~rt.closeRequested

\* controller.enqueue(chunk), where it does not throw.
controllerEnqueue(rt, chunk) == [rt EXCEPT !.queue = Append(@, chunk)]

\* controller.error(e): the queue is dropped with the stream.
controllerError(rt) ==
  IF rt.state = "readable"
  THEN [rt EXCEPT !.state = "errored", !.queue = <<>>]
  ELSE rt

\* controller.close(), where it does not throw: the stream closes once the
\* queue has been read.
controllerClose(rt) ==
  [rt EXCEPT !.closeRequested = TRUE,
             !.state = IF rt.queue = <<>> THEN "closed" ELSE "readable"]

\* The statement after the try: controller.close().  Where close throws,
\* start's promise rejects; the stream is no longer readable then and the
\* rejection leaves it as it is.
afterLoop(rt) ==
  IF CanCloseOrEnqueue(rt)
  THEN [controllerClose(rt) EXCEPT !.pc = "returned"]
  ELSE [rt EXCEPT !.pc = "rejected"]

\* catch {} instead: the error is dropped and the stream closed.
caughtSwallowed(rt) == afterLoop(rt)

\* The catch block and what follows it: the catch does not return.
caught(rt) == afterLoop(controllerError(rt))

\* const argsPiece = toolCalls[0]?.function?.arguments || "".
argsPiece(chunk) == chunk.tool_calls[1]

\* The body of the for await, for one chunk.
upstreamYields ==
  /\ route.pc = "iterate"
  /\ route.completionStream # <<>>
  /\ LET chunk == Head(route.completionStream)
         taken == [route EXCEPT !.completionStream = Tail(@)]
     IN route' =
          IF Len(chunk.tool_calls) > 0
          THEN LET piece == Encode(argsPiece(chunk))
                   arrived == [taken EXCEPT !.pieces = Append(@, piece)]
               IN IF CanCloseOrEnqueue(arrived)
                  THEN controllerEnqueue(arrived, piece)
                  ELSE caught(arrived)
          ELSE taken
  /\ UNCHANGED pageVars

\* The completion is exhausted: the loop ends.
upstreamEnds ==
  /\ route.pc = "iterate"
  /\ route.completionStream = <<>>
  /\ route' = afterLoop(route)
  /\ UNCHANGED pageVars

\* The iteration throws, before any chunk or after some.
upstreamThrows ==
  /\ route.pc = "iterate"
  /\ route' = caught([route EXCEPT !.threw = TRUE])
  /\ UNCHANGED pageVars

\* The holder of the Response reads one chunk.
consumerReads ==
  /\ route.state = "readable"
  /\ route.queue # <<>>
  /\ route' = [route EXCEPT
                 !.received = Append(@, Head(route.queue)),
                 !.queue = Tail(@),
                 !.state = IF route.closeRequested /\ Len(route.queue) = 1
                           THEN "closed" ELSE "readable"]
  /\ UNCHANGED pageVars

\* The holder of the Response goes away: the stream is cancelled.
consumerCancels ==
  /\ route.pc # "none"
  /\ route.state = "readable"
  /\ route' = [route EXCEPT !.state = "closed", !.queue = <<>>,
                            !.cancelled = TRUE]
  /\ UNCHANGED pageVars

(***************************************************************************)
(* The state after the page has mounted: the effect has read the table.    *)
(***************************************************************************)
OldNotes == <<"o", "l", "d">>

StoredWithNotes(id) ==
  Spread(Spread(DiffItem(id), [fetchedAt |-> 0]),
         [summaryDeveloper |-> OldNotes, summaryMarketing |-> OldNotes,
          summaryUpdatedAt |-> 0])

\* What the table may hold when the page is opened.
InitialCaches ==
  {EmptyMap,
   [x \in {"a"} |-> Spread(DiffItem(x), [fetchedAt |-> 0])],
   [x \in {"a"} |-> StoredWithNotes(x)]}

\* The mount effect: diffs and the summaries of the stored records that have
\* a note.
storedSummaries(storedDiffs) ==
  LET noted == {i \in 1..Len(storedDiffs) :
                  \/ Truthy(Get(storedDiffs[i], "summaryDeveloper", <<>>))
                  \/ Truthy(Get(storedDiffs[i], "summaryMarketing", <<>>))}
      at(id) == CHOOSE i \in noted : storedDiffs[i].id = id
  IN [id \in {storedDiffs[i].id : i \in noted} |->
        [developer |-> Get(storedDiffs[at(id)], "summaryDeveloper", <<>>),
         marketing |-> Get(storedDiffs[at(id)], "summaryMarketing", <<>>)]]

Mounted(table) ==
  LET storedDiffs == TableToArray(table) IN
  /\ cache = table
  /\ upserted = DOMAIN table
  /\ dbQueue = <<>>
  /\ now = 0
  /\ diffs = [i \in 1..Len(storedDiffs) |-> storedDiffs[i].id]
  /\ generatedSummaries = storedSummaries(storedDiffs)
  /\ loadingSummaries = EmptyMap
  /\ summaryErrors = EmptyMap
  /\ openItems = {}
  /\ isLoading = FALSE
  /\ nextPage = 0
  /\ listing = Idle
  /\ requests = [r \in Slots |-> Free]
  /\ clicks = 0
  /\ console = <<>>

Init == route = NoRoute /\ \E table \in InitialCaches : Mounted(table)

(***************************************************************************)
(* What the network may deliver.                                           *)
(***************************************************************************)
FetchErrors == {<<"AbortError", "The user aborted a request.">>,
                <<"TypeError", "Failed to fetch">>,
                <<"Error", "">>}
ErrJsons == {"", "Failed to generate release notes."}
StreamErrors == {"network error", ""}

Fix == <<"F", "i", "x">>
Yay == <<"Y", "a", "y">>

\* The bodies of the application runs: the complete payload in one chunk, and
\* the body that ends at once.
AppBodies == {Body(Encode(Payload(Fix, Yay)), {}), Body(<<>>, {})}

Next ==
  \/ handleFetchClick
  \/ handleLoadMoreClick
  \/ fetchDiffsFails
  \/ fetchDiffsResponds
  \/ bulkPutSettles(TRUE)
  \/ \E id \in Ids : toggleItem(id)
  \/ handleGenerateAllClick
  \/ \E id \in Ids : regenerate(id)
  \/ handleClearStorage
  \/ clearSettles(TRUE)
  \/ \E r \in Running, e \in FetchErrors : fetchRejects(r, e[1], e[2])
  \/ \E r \in Running, e \in ErrJsons : responseNotOk(r, e)
  \/ \E r \in Running, body \in AppBodies : responseOk(r, body)
  \/ \E r \in Running : \E c \in requests[r].cuts : readChunk(r, c)
  \/ \E r \in Running : readDone(r)
  \/ \E r \in Running, m \in StreamErrors : readThrows(r, m)
  \/ \E ok \in BOOLEAN : updateSettles(ok)

Spec == Init /\ [][Next]_vars

\* What happens without the user: a fetch resolves or rejects (the 60 s timer
\* of fetchWithTimeout aborts one that does neither), a read of the stream
\* returns or rejects, a call on db.diffs settles.
Progress ==
  \/ fetchDiffsFails
  \/ fetchDiffsResponds
  \/ bulkPutSettles(TRUE)
  \/ clearSettles(TRUE)
  \/ \E r \in Running, e \in FetchErrors : fetchRejects(r, e[1], e[2])
  \/ \E r \in Running, e \in ErrJsons : responseNotOk(r, e)
  \/ \E r \in Running, body \in AppBodies : responseOk(r, body)
  \/ \E r \in Running : \E c \in requests[r].cuts : readChunk(r, c)
  \/ \E r \in Running : readDone(r)
  \/ \E r \in Running, m \in StreamErrors : readThrows(r, m)
  \/ \E ok \in BOOLEAN : updateSettles(ok)

\* The page, when the network and the table answer every call in the end.
SpecFair == Spec /\ WF_vars(Progress)


(***************************************************************************)
(* One generation request on its own: item "a" is stored and listed, the   *)
(* user opens it (which starts the request when it has no notes) or        *)
(* presses Regenerate, once.                                               *)
(***************************************************************************)
NeverCalled == \A r \in Slots : requests[r].pc = "free"

InitRequest ==
  /\ route = NoRoute
  /\ \E table \in InitialCaches : "a" \in DOMAIN table /\ Mounted(table)

Escaped == <<"a", "\\", Q, "b">>
Accented == <<"f", EAcute>>
NoMatch == <<"{", Q, "e", "r", "r", Q, ":", "1", "}">>

\* A stream that stops inside the marketing value, cut after {"developer_ and
\* after the comma's closing quote.
FixBug == <<"F", "i", "x", " ", "b", "u", "g">>
FewerCrashes ==
  <<"Y", "o", "u", "'", "l", "l", " ", "s", "e", "e", " ", "f", "e">>
  \o <<"w", "e", "r", " ", "c", "r", "a", "s", "h", "e", "s", "!">>
Truncated ==
  <<"{">> \o Literal(DeveloperKey) \o FixBug \o <<Q, ",">>
          \o Literal(MarketingKey) \o FewerCrashes
FirstCut == Len(<<"{", Q>>) + Len(<<"d","e","v","e","l","o","p","e","r","_">>)
SecondCut == Len(<<"{">> \o Literal(DeveloperKey) \o FixBug \o <<Q, ",", Q>>)

\* The read loop: the body is any of ExtractBodies, cut into chunks at any
\* byte boundaries; the table takes every write.
AnyCuts(bytes) == Body(bytes, 1..Len(bytes))

ExtractBodies ==
  {AnyCuts(Encode(Payload(Fix, Yay))),
   AnyCuts(Encode(Payload(Accented, Yay))),
   AnyCuts(Encode(Payload(Escaped, Yay))),
   AnyCuts(Encode(NoMatch)),
   AnyCuts(<<>>),
   Body(Encode(Truncated), {FirstCut, SecondCut})}

NextExtract ==
  \/ NeverCalled /\ toggleItem("a")
  \/ NeverCalled /\ regenerate("a")
  \/ \E r \in Running, body \in ExtractBodies : responseOk(r, body)
  \/ \E r \in Running : \E c \in requests[r].cuts : readChunk(r, c)
  \/ \E r \in Running : readDone(r)
  \/ updateSettles(TRUE)

SpecExtract == InitRequest /\ [][NextExtract]_vars

\* The whole request: every failure of the fetch, of the stream and of the
\* writes, time passing; the bodies are cut at a few places only.
RequestBodies ==
  {Body(Encode(Payload(Fix, Yay)),
        {10, Len(Literal(DeveloperKey)) + 2, Len(Literal(DeveloperKey)) + 12}),
   Body(Encode(NoMatch), {4}),
   Body(<<>>, {})}

NextRequest ==
  \/ NeverCalled /\ toggleItem("a")
  \/ NeverCalled /\ regenerate("a")
  \/ \E r \in Running, e \in FetchErrors : fetchRejects(r, e[1], e[2])
  \/ \E r \in Running, e \in ErrJsons : responseNotOk(r, e)
  \/ \E r \in Running, body \in RequestBodies : responseOk(r, body)
  \/ \E r \in Running : \E c \in requests[r].cuts : readChunk(r, c)
  \/ \E r \in Running : readDone(r)
  \/ \E r \in Running, m \in StreamErrors : readThrows(r, m)
  \/ \E ok \in BOOLEAN : updateSettles(ok)
  \/ Tick

SpecRequest == InitRequest /\ [][NextRequest]_vars

\* The same, when the fetch, the reads and the writes all answer in the end.
RequestProgress ==
  \/ \E r \in Running, e \in FetchErrors : fetchRejects(r, e[1], e[2])
  \/ \E r \in Running, e \in ErrJsons : responseNotOk(r, e)
  \/ \E r \in Running, body \in RequestBodies : responseOk(r, body)
  \/ \E r \in Running : \E c \in requests[r].cuts : readChunk(r, c)
  \/ \E r \in Running : readDone(r)
  \/ \E r \in Running, m \in StreamErrors : readThrows(r, m)
  \/ \E ok \in BOOLEAN : updateSettles(ok)

SpecRequestFair == SpecRequest /\ WF_vars(RequestProgress)

(***************************************************************************)
(* The listing and the table on their own: pages are fetched and stored,   *)
(* the table is cleared, any Dexie call may reject, time passes.           *)
(***************************************************************************)
NextStore ==
  \/ handleFetchClick
  \/ handleLoadMoreClick
  \/ fetchDiffsFails
  \/ fetchDiffsResponds
  \/ \E ok \in BOOLEAN : bulkPutSettles(ok)
  \/ handleClearStorage
  \/ \E ok \in BOOLEAN : clearSettles(ok)
  \/ Tick

SpecStore == Init /\ [][NextStore]_vars

(***************************************************************************)
(* One POST seen from the backend: the response stream over every          *)
(* completion of at most MaxChunks chunks, read or cancelled at any time.  *)
(***************************************************************************)
InitRoute ==
  /\ Mounted(EmptyMap)
  /\ \E completion \in Completions(MaxChunks) : route = NewStream(completion)

NextRoute ==
  \/ upstreamYields
  \/ upstreamEnds
  \/ upstreamThrows
  \/ consumerReads
  \/ consumerCancels

SpecRoute == InitRoute /\ [][NextRoute]_vars


(***************************************************************************)
(* Properties.                                                             *)
(***************************************************************************)
IsPrefix(s, t) == Len(s) <= Len(t) /\ SubSeq(t, 1, Len(s)) = s

\* The entry of a useState record under a key: <<value>>, or <<>> when the
\* key is absent.
Entry(m, k) == IF k \in DOMAIN m THEN <<m[k]>> ELSE <<>>

Notes(q) == [developer |-> q.finalDeveloper, marketing |-> q.finalMarketing]

\* Complete payloads whose values hold no double quote.
PlainPayloads == {<<Fix, Yay>>, <<Accented, Yay>>}

\* C1: whatever the chunk boundaries, once the stream of a complete payload
\* {"developer_notes":"D","marketing_notes":"M"} has ended the best values
\* are exactly D and M.
C1_FinalValuesArePayload ==
  \A r \in Slots : \A p \in PlainPayloads :
    ( /\ requests[r].outcome = "ended"
      /\ requests[r].bytes = Encode(Payload(p[1], p[2])) )
    => /\ requests[r].finalDeveloper = p[1]
       /\ requests[r].finalMarketing = p[2]

\* C2: within a request a best value never shrinks or empties: each step
\* leaves it a prefix of what it becomes, and a chunk after which the
\* pattern has no match leaves it as it was.
C2_BestValuesGrow ==
  [][\A r \in Slots :
       requests[r].pc \in {"read", "store"} =>
         /\ IsPrefix(requests[r].finalDeveloper, requests'[r].finalDeveloper)
         /\ IsPrefix(requests[r].finalMarketing, requests'[r].finalMarketing)
         /\ ( /\ requests'[r].pos > requests[r].pos
              /\ ~devMatch(requests'[r].accumulated).found )
            => requests'[r].finalDeveloper = requests[r].finalDeveloper
         /\ ( /\ requests'[r].pos > requests[r].pos
              /\ ~mktMatch(requests'[r].accumulated).found )
            => requests'[r].finalMarketing = requests[r].finalMarketing]_vars

\* C2 witness: a developer value complete and a marketing value grown to a
\* proper prefix, with chunks still to come.
C2_Witness ==
  \E r \in Slots :
    /\ requests[r].pc = "read"
    /\ requests[r].finalDeveloper = Fix
    /\ requests[r].finalMarketing = <<"Y", "a">>

\* C3: once the read of the stream has failed, the request issues no further
\* db.diffs.update.
C3_NoWriteAfterStreamFailure ==
  \A r \in Slots :
    requests[r].outcome = "stream" =>
      ~\E i \in 1..Len(dbQueue) :
          /\ dbQueue[i].kind = "update"
          /\ dbQueue[i].req = r
          /\ dbQueue[i].final

\* C4: whichever writes were rejected, a request whose stream ended has read
\* the whole body, holds the values its buffer gives, shows them in memory,
\* has no error message and is not loading.
C4_WriteFailuresHarmless ==
  \A r \in Slots :
    LET q == requests[r] IN
    (q.pc = "done" /\ q.outcome = "ended") =>
      /\ q.pos = Len(q.bytes)
      /\ q.finalDeveloper = NextBest(devMatch(q.accumulated), <<>>)
      /\ q.finalMarketing = NextBest(mktMatch(q.accumulated), <<>>)
      /\ Entry(generatedSummaries, q.id) = <<Notes(q)>>
      /\ Entry(summaryErrors, q.id) = <<"">>
      /\ Entry(loadingSummaries, q.id) = <<FALSE>>

\* C4 witness: such a request, a partial and the final write both rejected.
C4_Witness ==
  \E r \in Slots :
    /\ requests[r].pc = "done"
    /\ requests[r].outcome = "ended"
    /\ requests[r].finalDeveloper = Fix
    /\ requests[r].log = {"Dexie partial save failed", "Failed to store summary"}

NothingMatched(q) ==
  ~devMatch(q.accumulated).found /\ ~mktMatch(q.accumulated).found

\* C5: a stream that ends with no chunk, or with no match of either pattern,
\* leaves both best values empty and records no error; the final write is
\* issued with two empty notes and the time of the call, and once it has
\* resolved the stored notes are empty and carry that time.
C5_NothingExtracted ==
  /\ [](\A r \in Slots :
          LET q == requests[r] IN
          (q.outcome = "ended" /\ NothingMatched(q)) =>
            /\ q.finalDeveloper = <<>> /\ q.finalMarketing = <<>>
            /\ Entry(summaryErrors, q.id) = <<"">>
            /\ ( /\ q.pc = "done"
                 /\ "Failed to store summary" \notin q.log
                 /\ q.id \in DOMAIN cache )
               => /\ cache[q.id].summaryDeveloper = <<>>
                  /\ cache[q.id].summaryMarketing = <<>>)
  /\ [][\A r \in Slots :
          LET q == requests[r] IN
          /\ ( /\ q.pc = "read" /\ requests'[r].outcome = "ended"
               /\ NothingMatched(q) )
             => dbQueue' =
                  Append(dbQueue,
                    [kind |-> "update", req |-> r, final |-> TRUE,
                     key |-> q.id,
                     changes |-> [summaryDeveloper |-> <<>>,
                                  summaryMarketing |-> <<>>,
                                  summaryUpdatedAt |-> now]])
          /\ ( /\ q.pc = "store" /\ requests'[r].pc = "done"
               /\ "Failed to store summary" \notin requests'[r].log
               /\ q.id \in DOMAIN cache )
             => cache'[q.id].summaryUpdatedAt =
                  Head(dbQueue).changes.summaryUpdatedAt]_vars

\* C5 witness: chunks were read, nothing matched, and the final write, made
\* at time 1, has replaced the notes stored at time 0.
C5_Witness ==
  \E r \in Slots :
    /\ requests[r].pc = "done"
    /\ requests[r].outcome = "ended"
    /\ requests[r].pos > 0
    /\ NothingMatched(requests[r])
    /\ requests[r].log = {}
    /\ cache[requests[r].id].summaryDeveloper = <<>>
    /\ cache[requests[r].id].summaryUpdatedAt = 1

\* C6: when the final write of a request whose stream ended is applied, the
\* id being stored and no other request for the id being recorded, the notes
\* stored for the id are the final best values of the request, and so are
\* the notes held in memory for the id.
C6_FinalWriteAuthoritative ==
  [][\A r \in Slots :
       LET q == requests[r] IN
       ( /\ q.pc = "store" /\ requests'[r].pc = "done"
         /\ q.outcome = "ended"
         /\ "Failed to store summary" \notin requests'[r].log
         /\ q.id \in DOMAIN cache
         /\ \A o \in Slots \ {r} :
              requests[o].pc = "free" \/ requests[o].id # q.id )
       => /\ cache'[q.id].summaryDeveloper = q.finalDeveloper
          /\ cache'[q.id].summaryMarketing = q.finalMarketing
          /\ Get(generatedSummaries', q.id, EmptyNotes) = Notes(q)]_vars

\* C7: a write of a generation request changes, in the record of its id, the
\* fields it is given and no other (never id, description, diff, url or
\* fetchedAt), and changes no other record; a record with a marketing note
\* updated with a developer note alone has both.
C7_UpdateMerges ==
  /\ LET table == [x \in {"a"} |->
                     Spread(DiffItem(x), [summaryMarketing |-> <<"y">>])]
         after == TableUpdate(table, "a", [summaryDeveloper |-> <<"x">>])
     IN /\ after["a"].summaryDeveloper = <<"x">>
        /\ after["a"].summaryMarketing = <<"y">>
  /\ [][(dbQueue # <<>> /\ Head(dbQueue).kind = "update"
           /\ dbQueue' = Tail(dbQueue))
        => LET call == Head(dbQueue) IN
           /\ DOMAIN cache' = DOMAIN cache
           /\ \A x \in DOMAIN cache :
                /\ x # call.key => cache'[x] = cache[x]
                /\ \A f \in DOMAIN cache[x] \ NoteFields :
                     f \in DOMAIN cache'[x] /\ cache'[x][f] = cache[x][f]]_vars

\* C7 witness: a partial write made at time 1 has been merged into the record
\* fetched at time 0.
C7_Witness ==
  /\ "a" \in DOMAIN cache
  /\ "summaryDeveloper" \in DOMAIN cache["a"]
  /\ cache["a"].summaryDeveloper = <<"F">>
  /\ cache["a"].summaryUpdatedAt = 1
  /\ cache["a"].fetchedAt = 0
  /\ cache["a"].description = DiffItem("a").description

\* C8: the ids stored are exactly the ids put since the table was last
\* cleared.
C8_StoredIdsAreUpserted == DOMAIN cache = upserted

\* C8 witness: the table was cleared while a request was in flight, and the
\* final write of the request has since resolved on the empty table.
C8_Witness ==
  \E r \in Slots :
    /\ requests[r].pc = "done"
    /\ requests[r].outcome = "ended"
    /\ requests[r].log = {}
    /\ cache = EmptyMap
    /\ generatedSummaries = EmptyMap
    /\ loadingSummaries = [x \in {requests[r].id} |-> FALSE]

\* C9: when bulkPut resolves, each record of the page is stored exactly as
\* put (item fields and fetchedAt, no field of an earlier record), toArray
\* returns it, and the other records are as they were.
C9_BulkPutReplaces ==
  [][(dbQueue # <<>> /\ Head(dbQueue).kind = "bulkPut"
        /\ dbQueue' = Tail(dbQueue) /\ console' = console)
     => LET records == Head(dbQueue).records
            ids == {records[i].id : i \in 1..Len(records)}
        IN /\ \A i \in 1..Len(records) :
                /\ records[i].id \in DOMAIN cache'
                /\ cache'[records[i].id] = records[i]
                /\ DOMAIN cache'[records[i].id] = ItemFields \cup {"fetchedAt"}
                /\ records[i] \in Range(TableToArray(cache'))
           /\ DOMAIN cache' = DOMAIN cache \cup ids
           /\ \A x \in DOMAIN cache \ ids : cache'[x] = cache[x]]_vars

\* C9 witness: the record of "a", stored with notes when the page was opened,
\* has been replaced by the one fetched at time 1, and has no note.
C9_Witness ==
  /\ Entry(generatedSummaries, "a") =
       <<[developer |-> OldNotes, marketing |-> OldNotes]>>
  /\ clicks = 1
  /\ "a" \in DOMAIN cache
  /\ cache["a"] = Spread(DiffItem("a"), [fetchedAt |-> 1])

TransportFailures == {"rejected", "timeout", "http", "stream"}

InFlight == {"fetch", "read", "store"}

\* The entries of another id than id, in the page's state and in the table,
\* are left as they are.
OthersUntouched(id) ==
  \A j \in Ids \ {id} :
    /\ Entry(generatedSummaries', j) = Entry(generatedSummaries, j)
    /\ Entry(loadingSummaries', j) = Entry(loadingSummaries, j)
    /\ Entry(summaryErrors', j) = Entry(summaryErrors, j)
    /\ Entry(cache', j) = Entry(cache, j)

\* C11: requests on distinct ids are independent: a step of a request in
\* flight (response, chunk, end or failure of the stream, settled write)
\* changes no other request and no entry of another id, in memory or in the
\* table, and what a chunk makes of the buffer, the best values and the notes
\* in memory is given by the request's own buffer, values and chunk.
C11_RequestsIndependent ==
  [][/\ \A r \in Slots :
          LET q == requests[r]
              n == requests'[r]
          IN (q.pc \in InFlight /\ n # q) =>
               /\ \A o \in Slots \ {r} : requests'[o] = requests[o]
               /\ OthersUntouched(q.id)
               /\ n.pos > q.pos =>
                    LET chunk == decode(SubSeq(q.bytes, q.pos + 1, n.pos)) IN
                    /\ n.accumulated = q.accumulated \o chunk
                    /\ n.finalDeveloper =
                         NextBest(devMatch(n.accumulated), q.finalDeveloper)
                    /\ n.finalMarketing =
                         NextBest(mktMatch(n.accumulated), q.finalMarketing)
                    /\ Entry(generatedSummaries', q.id) =
                         <<surfaced(generatedSummaries, q.id,
                                    n.finalDeveloper, n.finalMarketing)>>
     /\ ( /\ dbQueue # <<>> /\ Head(dbQueue).kind = "update"
          /\ dbQueue' = Tail(dbQueue) )
        => OthersUntouched(Head(dbQueue).key)]_vars

\* C11 witness: requests for two ids have both read their chunk, and the
\* partial write of one has been applied while the other's is still queued.
C11_Witness ==
  \E r, o \in Slots :
    /\ requests[r].id = "a" /\ requests[o].id = "b"
    /\ requests[r].pc = "read" /\ requests[o].pc = "read"
    /\ requests[r].finalDeveloper = Fix /\ requests[o].finalDeveloper = Fix
    /\ Entry(generatedSummaries, "a") = <<[developer |-> Fix, marketing |-> Yay]>>
    /\ Entry(generatedSummaries, "b") = <<[developer |-> Fix, marketing |-> Yay]>>
    /\ "a" \in DOMAIN cache /\ "b" \in DOMAIN cache
    /\ "summaryDeveloper" \in DOMAIN cache["a"]
    /\ cache["a"].summaryDeveloper = Fix
    /\ "summaryDeveloper" \notin DOMAIN cache["b"]

\* C12: a request is sent only in the step of a user action, and only in a
\* slot no call occupies; a call that has returned, with or without error,
\* stays as it is until a user action.
C12_NoAutomaticRetry ==
  [][\A r \in Slots :
       /\ (requests'[r].pc = "fetch" /\ requests[r].pc # "fetch")
          => /\ clicks' = clicks + 1
             /\ requests[r].pc \in {"free", "done"}
       /\ (requests[r].pc = "done" /\ requests'[r] # requests[r])
          => clicks' = clicks + 1]_vars

\* C12 witness: a request has failed before the stream was opened, its id
\* shows the message, and nothing is in flight.
C12_Witness ==
  \E r \in Slots :
    /\ requests[r].pc = "done"
    /\ requests[r].outcome = "http"
    /\ Entry(summaryErrors, requests[r].id) = <<"Failed to generate release notes.">>
    /\ Entry(loadingSummaries, requests[r].id) = <<FALSE>>
    /\ \A o \in Slots : requests[o].pc \notin InFlight

\* What handleClearStorage resets, besides the table.
Reset ==
  /\ diffs = <<>>
  /\ generatedSummaries = EmptyMap
  /\ loadingSummaries = EmptyMap
  /\ summaryErrors = EmptyMap
  /\ openItems = {}
  /\ nextPage = 0

\* C13: a clear that resolves leaves the table empty, and a clear of an empty
\* table leaves it empty, resolved or not; a resolved clear of the state a
\* resolved clear has left changes nothing of it.
C13_ClearIdempotent ==
  [][(dbQueue # <<>> /\ Head(dbQueue).kind = "clear"
        /\ dbQueue' = Tail(dbQueue))
     => /\ console' = console => (cache' = EmptyMap /\ Reset')
        /\ cache = EmptyMap => cache' = EmptyMap
        /\ (console' = console /\ cache = EmptyMap /\ Reset)
           => UNCHANGED <<cache, upserted, diffs, summaryVars, openItems,
                          nextPage, isLoading, listing, requests, console>>]_vars

\* C13 witness: a second user action has called clear, and the table it will
\* clear is already empty.
C13_Witness ==
  /\ clicks = 2
  /\ dbQueue = <<[kind |-> "clear"]>>
  /\ cache = EmptyMap
  /\ Reset

\* v is the reference extraction of a field from a buffer: the characters
\* from the end of the first "<key>":" of the buffer up to the next double
\* quote, or to the end of the buffer when none follows.
IsReference(v, buffer, key) ==
  LET lit == Literal(key)
      n == Len(lit)
      occurs(i) == i + n - 1 <= Len(buffer) /\ SubSeq(buffer, i, i + n - 1) = lit
  IN \E i \in 1..Len(buffer) :
       /\ occurs(i)
       /\ \A h \in 1..(i - 1) : ~occurs(h)
       /\ \E to \in (i + n - 1)..Len(buffer) :
            /\ v = SubSeq(buffer, i + n, to)
            /\ \A j \in (i + n)..to : buffer[j] # Q
            /\ to = Len(buffer) \/ buffer[to + 1] = Q

Delimited(buffer, key) ==
  \E i \in 1..Len(buffer) :
    /\ i + Len(Literal(key)) - 1 <= Len(buffer)
    /\ SubSeq(buffer, i, i + Len(Literal(key)) - 1) = Literal(key)

\* C14: each chunk is appended to the buffer in arrival order; after every
\* chunk a best value is the reference extraction of its field from the
\* buffer, or what it was (empty) while the delimiter is not in the buffer.
\* For {"developer_ | notes":"Fix bug"," | marketing_notes":"You'll see fewer
\* crashes! the values are empty and empty, then Fix bug and empty, then
\* Fix bug and You'll see fewer crashes!.
C14_ReferenceExtraction ==
  /\ [](\A r \in Slots :
          LET q == requests[r] IN
          q.pc \in {"read", "store", "done"} =>
            /\ IF Delimited(q.accumulated, DeveloperKey)
               THEN IsReference(q.finalDeveloper, q.accumulated, DeveloperKey)
               ELSE q.finalDeveloper = <<>>
            /\ IF Delimited(q.accumulated, MarketingKey)
               THEN IsReference(q.finalMarketing, q.accumulated, MarketingKey)
               ELSE q.finalMarketing = <<>>
            /\ q.bytes = Encode(Truncated) =>
                 /\ q.pos = FirstCut =>
                      q.finalDeveloper = <<>> /\ q.finalMarketing = <<>>
                 /\ q.pos = SecondCut =>
                      q.finalDeveloper = FixBug /\ q.finalMarketing = <<>>
                 /\ q.pos = Len(q.bytes) =>
                      /\ q.finalDeveloper = FixBug
                      /\ q.finalMarketing = FewerCrashes)
  /\ [][\A r \in Slots :
          LET q == requests[r]
              n == requests'[r]
          IN /\ (q.pc = "fetch" /\ n.pc = "read") => n.accumulated = <<>>
             /\ (q.pc = "read" /\ n.pos > q.pos) =>
                  /\ n.accumulated =
                       q.accumulated \o decode(SubSeq(q.bytes, q.pos + 1, n.pos))
                  /\ ~Delimited(n.accumulated, DeveloperKey)
                       => n.finalDeveloper = q.finalDeveloper
                  /\ ~Delimited(n.accumulated, MarketingKey)
                       => n.finalMarketing = q.finalMarketing
             /\ (q.pc \in {"read", "store"} /\ n.pos = q.pos) =>
                  n.accumulated = q.accumulated]_vars

\* C14 witness: the second chunk of the scenario has been read, the developer
\* value is complete and the marketing value still empty.
C14_Witness ==
  \E r \in Slots :
    /\ requests[r].pc = "read"
    /\ requests[r].bytes = Encode(Truncated)
    /\ requests[r].pos = SecondCut
    /\ Len(requests[r].accumulated) = SecondCut
    /\ requests[r].finalDeveloper = FixBug
    /\ requests[r].finalMarketing = <<>>
    /\ Entry(generatedSummaries, requests[r].id) =
         <<[developer |-> FixBug, marketing |-> <<>>]>>

\* The part of the value a\"b before its double quote, and the place of that
\* quote in the payload.
RawPrefix == <<"a", "\\">>
EscapedQuoteAt == Len(<<"{">> \o Literal(DeveloperKey) \o RawPrefix) + 1

\* C15: no best value ever holds a double quote; for a developer value a\"b
\* the best value is a prefix of a\ (backslash included), it is a\ once the
\* quote has arrived, and it is a\ after every later chunk.
C15_NoEscapeDecoding ==
  \A r \in Slots :
    LET q == requests[r] IN
    /\ Q \notin Range(q.finalDeveloper) \cup Range(q.finalMarketing)
    /\ q.bytes = Encode(Payload(Escaped, Yay)) =>
         /\ IsPrefix(q.finalDeveloper, RawPrefix)
         /\ q.pos >= EscapedQuoteAt => q.finalDeveloper = RawPrefix
         /\ q.pos = Len(q.bytes) => q.finalMarketing = Yay

\* C15 witness: the whole payload has been read and stored, the developer
\* note is a\ .
C15_Witness ==
  \E r \in Slots :
    /\ requests[r].pc = "done"
    /\ requests[r].bytes = Encode(Payload(Escaped, Yay))
    /\ requests[r].finalDeveloper = RawPrefix
    /\ cache[requests[r].id].summaryDeveloper = <<"a", "\\">>
    /\ cache[requests[r].id].summaryMarketing = Yay

\* C17: at no time are two requests for the same id in flight.
C17_OneRequestPerId ==
  \A r, o \in Slots :
    ( /\ r # o
      /\ requests[r].pc \in InFlight
      /\ requests[o].pc \in InFlight )
    => requests[r].id # requests[o].id

\* Every request in flight returns in the end, its id not loading.
EventuallyNotLoading ==
  \A r \in Slots :
    (requests[r].pc \in InFlight)
      ~> (requests[r].pc = "done"
          /\ Entry(loadingSummaries, requests[r].id) = <<FALSE>>)

\* C16: every request that has started returns in the end, on each of its
\* paths, leaving its id not loading, and from its start until then its id is
\* loading.
C16_LoadingUntilDone ==
  /\ [](\A r \in Slots :
          requests[r].pc \in InFlight
            => Entry(loadingSummaries, requests[r].id) = <<TRUE>>)
  /\ EventuallyNotLoading

BeforeStream == {"rejected", "timeout", "http"}

\* C18: a request that fails before its stream is opened writes nothing: the
\* step that starts it sets the notes of its id in memory to two empty
\* strings and leaves the table and the queue of calls as they are, the step
\* in which it fails does the same to table and queue, and at no time
\* before or after is a call of the request waiting to settle.
C18_NoWriteBeforeStream ==
  /\ [](\A r \in Slots :
          ( \/ requests[r].pc = "fetch"
            \/ requests[r].outcome \in BeforeStream )
          => \A i \in 1..Len(dbQueue) :
               dbQueue[i].kind = "update" => dbQueue[i].req # r)
  /\ [][\A r \in Slots :
          LET q == requests[r]
              n == requests'[r]
          IN /\ (q.pc # "fetch" /\ n.pc = "fetch")
                => /\ Entry(generatedSummaries', n.id) = <<EmptyNotes>>
                   /\ UNCHANGED <<cache, dbQueue>>
             /\ (q.pc = "fetch" /\ n # q)
                => /\ n.outcome \in BeforeStream => n.pc = "done"
                   /\ UNCHANGED <<cache, dbQueue, generatedSummaries>>]_vars

\* C18 witness: the response was not OK; the stored record still has its
\* notes and their time, the notes in memory are empty, no call is waiting.
C18_Witness ==
  \E r \in Slots :
    /\ requests[r].pc = "done"
    /\ requests[r].outcome = "http"
    /\ requests[r].id = "a"
    /\ cache = [x \in {"a"} |-> StoredWithNotes(x)]
    /\ Entry(generatedSummaries, "a") = <<EmptyNotes>>
    /\ dbQueue = <<>>

\* The table and the page's state are empty, and no listing fetch is under
\* way.
Emptied ==
  /\ cache = EmptyMap
  /\ Reset
  /\ listing = Idle
  /\ \A i \in 1..Len(dbQueue) : dbQueue[i].kind # "bulkPut"

\* C19: once a reset has emptied the table and the page's state, they stay
\* empty in every step that is not a user action, also the steps of requests
\* that were in flight when the reset was made.
C19_ResetStaysEmpty ==
  [][(Emptied /\ clicks' = clicks)
     => /\ cache' = EmptyMap
        /\ diffs' = <<>>
        /\ generatedSummaries' = EmptyMap
        /\ loadingSummaries' = EmptyMap
        /\ summaryErrors' = EmptyMap]_vars


\* The stream is terminated: nothing more can be put into it.
Terminated(rt) == rt.state # "readable" \/ rt.closeRequested

\* What the stream has carried: the chunks read and those still queued.
Carried(rt) == rt.received \o rt.queue

\* C20: the response stream carries exactly the argument pieces of the
\* upstream tool-call chunks, in their order of arrival: what was read and
\* what is queued is a prefix of them at all times, and all of them unless
\* the stream was errored or cancelled.  The stream is terminated once: it
\* stays readable while the iteration runs; after a completion that ended
\* it is closed (close was requested after the last chunk) and not errored;
\* after an iteration that threw it is errored and not closed; a terminated
\* stream never changes its outcome and nothing is enqueued to it.
C20_StreamTerminatedOnce ==
  /\ [](/\ IsPrefix(Carried(route), route.pieces)
        /\ (route.state # "errored" /\ ~route.cancelled)
             => Carried(route) = route.pieces
        /\ (route.pc = "iterate" /\ ~route.cancelled) => ~Terminated(route)
        /\ (route.pc \in {"returned", "rejected"} /\ ~route.cancelled)
             => IF route.threw
                THEN route.state = "errored" /\ ~route.closeRequested
                ELSE /\ route.closeRequested
                     /\ route.state # "errored"
                     /\ route.completionStream = <<>>)
  /\ [][Terminated(route)
          => /\ Terminated(route')
             /\ route'.closeRequested = route.closeRequested
             /\ route.state # "readable" => route'.state = route.state
             /\ route'.state # "errored"
             /\ Len(route'.queue) <= Len(route.queue)
             /\ IsPrefix(route.received, route'.received)]_vars

\* The iteration threw after a piece had been read: the catch block errored
\* the stream and the close() after it threw.
C20_Witness ==
  /\ route.pc = "rejected"
  /\ route.threw
  /\ ~route.cancelled
  /\ route.state = "errored"
  /\ route.received # <<>>

=============================================================================
